---- MODULE Spec2Model ----
(***************************************************************************)
(* Model of pinterest_downloader/scrape.py: the authenticated request      *)
(* layer (send_request), the URL extraction of one API batch               *)
(* (_extract_image_urls_from_results), the paginated gallery walk          *)
(* (get_gallery_media / _fetch_media_batch) and the download loop of a     *)
(* gallery run (save_deviantart_gallery / download_media / save_image).    *)
(*                                                                         *)
(* Python strings that the code takes apart or puts together are tuples of *)
(* one-character strings; strings the code only copies or compares whole   *)
(* (an item's "url", a type's "t") are TLA+ strings.  A dict is a function  *)
(* whose DOMAIN is the set of keys that are present.                       *)
(***************************************************************************)
EXTENDS Integers, Sequences, FiniteSets, TLC

VARIABLES
    pc,           \* position of the run: "page" | "api" | "download" | "done" | "raised",
                  \* or of a lone extraction: "extract" | "returned" | "raised"
    gets,         \* send_request: GETs issued so far by the top-level call in progress
    total_images, \* get_gallery_media: total_images
    offset,       \* get_gallery_media: offset
    has_more,     \* media_batch["has_more"]
    next_offset,  \* media_batch["next_offset"]
    results,      \* _fetch_media_batch: results, the list the extraction walks
    media_urls,   \* the extraction's media_urls, then the batch that is yielded
    idx,          \* position of the for loop over results / over the batch (1-based)
    error_list,   \* module global error_list
    ok_count,     \* module global ok_count
    \* history of the run, read by the properties only
    offsets,      \* the offset passed to each call of _fetch_media_batch so far
    requested,    \* URLs download_media has issued a GET for, in the current batch
    ok_gets,      \* image GETs that were answered ok
    marker_seen,  \* send_request received an ok response whose Set-Cookie holds auth=deleted
    walk_over,    \* an API call failed, or its response had no true hasMore
    call_failed,  \* an API call returned None or raised
    honest        \* every API response so far agreed with total_images

vars == <<pc, gets, total_images, offset, has_more, next_offset, results, media_urls,
          idx, error_list, ok_count, offsets, requested, ok_gets, marker_seen,
          walk_over, call_failed, honest>>

\* calls of _fetch_media_batch so far
api_calls == Len(offsets)

-----------------------------------------------------------------------------
(* Bounds *)

MaxLen == 3
MaxResults == 2
MaxCalls == 2
MaxGets == 3

\* consts.MAX_GALLERY_ITEMS
MAX_GALLERY_ITEMS == 2

\* The largest total a page reports: MaxCalls full pages.
MaxTotal == MAX_GALLERY_ITEMS * MaxCalls

-----------------------------------------------------------------------------
(* Strings *)

PLACEHOLDER == <<"<","p","r","e","t","t","y","N","a","m","e",">">>
TOKEN_QUERY == <<"?","t","o","k","e","n","=">>

\* Mutant of Replace: replaces only a string that is the placeholder, whole.
Replace_WholeMatch(s, old, new) == IF s = old THEN new ELSE s

\* str.replace(old, new): left to right, non-overlapping, the inserted text is
\* not scanned again.  old is never empty here.
RECURSIVE Replace(_, _, _)
Replace(s, old, new) ==
    IF Len(s) < Len(old) THEN s
    ELSE IF SubSeq(s, 1, Len(old)) = old
         THEN new \o Replace(SubSeq(s, Len(old) + 1, Len(s)), old, new)
         ELSE <<s[1]>> \o Replace(Tail(s), old, new)

-----------------------------------------------------------------------------
(* Dicts *)

EmptyDict == [k \in {} |-> <<>>]

\* bool(d.get(k)) for a key whose value, when present, is a str, list or dict:
\* a missing key gives None, and None, "", [] and {} are all falsy.
Truthy(d, k) == k \in DOMAIN d /\ d[k] # <<>>

-----------------------------------------------------------------------------
(* Result items of the gallery API *)

CatItem ==
    [url |-> "https://www.deviantart.com/a/art/cat-1",
     media |-> [baseUri |-> <<"h","t","t","p","s",":","/","/","c","d","n","/","x">>,
                prettyName |-> <<"c","a","t">>,
                token |-> << <<"a","b","c">> >>,
                types |-> << [t |-> "fullview",
                              c |-> PLACEHOLDER \o <<".","j","p","g">>] >>]]

DogItem ==
    [url |-> "https://www.deviantart.com/a/art/dog-2",
     media |-> [baseUri |-> <<"b","/">>,
                prettyName |-> <<"d">>,
                token |-> << <<"t","1">>, <<"t","2">> >>,
                types |-> << [t |-> "preview", c |-> <<"p">>],
                             [t |-> "fullview",
                              c |-> PLACEHOLDER \o <<"-">> \o PLACEHOLDER] >>]]

NoMediaItem == [url |-> "https://www.deviantart.com/a/art/nomedia-3"]

EmptyMediaItem ==
    [url |-> "https://www.deviantart.com/a/art/emptymedia-4", media |-> EmptyDict]

NoBaseUriItem ==
    [url |-> "https://www.deviantart.com/a/art/nobase-5",
     media |-> [prettyName |-> <<"n">>,
                token |-> << <<"t">> >>,
                types |-> << [t |-> "fullview", c |-> PLACEHOLDER] >>]]

EmptyPrettyItem ==
    [url |-> "https://www.deviantart.com/a/art/nopretty-6",
     media |-> [baseUri |-> <<"b","/">>,
                prettyName |-> <<>>,
                token |-> << <<"t">> >>,
                types |-> << [t |-> "fullview", c |-> PLACEHOLDER] >>]]

EmptyTokenItem ==
    [url |-> "https://www.deviantart.com/a/art/notoken-7",
     media |-> [baseUri |-> <<"b","/">>,
                prettyName |-> <<"n">>,
                token |-> <<>>,
                types |-> << [t |-> "fullview", c |-> PLACEHOLDER] >>]]

NoTypesItem ==
    [url |-> "https://www.deviantart.com/a/art/notypes-8",
     media |-> [baseUri |-> <<"b","/">>,
                prettyName |-> <<"n">>,
                token |-> << <<"t">> >>]]

NoFullviewItem ==
    [url |-> "https://www.deviantart.com/a/art/nofullview-9",
     media |-> [baseUri |-> <<"b","/">>,
                prettyName |-> <<"n">>,
                token |-> << <<"t">> >>,
                types |-> << [c |-> <<"x">>], [t |-> "preview", c |-> <<"p">>] >>]]

NoTemplateItem ==
    [url |-> "https://www.deviantart.com/a/art/notemplate-10",
     media |-> [baseUri |-> <<"b","/">>,
                prettyName |-> <<"n">>,
                token |-> << <<"t">> >>,
                types |-> << [t |-> "fullview"] >>]]

\* An item of the JSON that carries no "url" key.
NoFullviewNoUrlItem ==
    [media |-> [baseUri |-> <<"b","/">>,
                prettyName |-> <<"n">>,
                token |-> << <<"t">> >>,
                types |-> << [t |-> "preview", c |-> <<"p">>] >>]]

Items ==
    {CatItem, DogItem, NoMediaItem, EmptyMediaItem, NoBaseUriItem, EmptyPrettyItem,
     EmptyTokenItem, NoTypesItem, NoFullviewItem, NoTemplateItem, NoFullviewNoUrlItem}

SeqsUpTo(S, n) == UNION {[1..k -> S] : k \in 0..n}

-----------------------------------------------------------------------------
(* _extract_image_urls_from_results *)

\* item.get("media", {})
MediaOf(item) == IF "media" \in DOMAIN item THEN item["media"] ELSE EmptyDict

\* Mutant of HasRequiredFields: pretty_name is not validated.
HasRequiredFields_NoPrettyName(media) ==
    /\ Truthy(media, "baseUri")
    /\ Truthy(media, "token")
    /\ Truthy(media, "types")

\* not (base_uri and pretty_name and token_list and types)
HasRequiredFields(media) ==
    /\ Truthy(media, "baseUri")
    /\ Truthy(media, "prettyName")
    /\ Truthy(media, "token")
    /\ Truthy(media, "types")

\* t.get("t") == "fullview"
IsFullview(t) == "t" \in DOMAIN t /\ t["t"] = "fullview"

\* next((t for t in types if t.get("t") == "fullview"), None): the index of the
\* first match, 0 for None.
FullviewIndex(types) ==
    IF \E k \in 1..Len(types) : IsFullview(types[k])
    THEN CHOOSE k \in 1..Len(types) :
            /\ IsFullview(types[k])
            /\ \A j \in 1..(k - 1) : ~IsFullview(types[j])
    ELSE 0

\* Mutant of BuildUrl: the last token instead of the first.
BuildUrl_LastToken(media, fullview) ==
    media["baseUri"]
        \o Replace(fullview["c"], PLACEHOLDER, media["prettyName"])
        \o TOKEN_QUERY
        \o media["token"][Len(media["token"])]

\* f"{base_uri}{image_path}?token={token}" with image_path the template after
\* replace("<prettyName>", pretty_name) and token = token_list[0]
BuildUrl(media, fullview) ==
    media["baseUri"]
        \o Replace(fullview["c"], PLACEHOLDER, media["prettyName"])
        \o TOKEN_QUERY
        \o media["token"][1]

\* One iteration of the for loop over one item.  st = [urls, errors, raised]:
\* the local media_urls, the global error_list, and whether item["url"] raised
\* KeyError.
ExtractItem(st, item) ==
    LET media == MediaOf(item) IN
    IF media = EmptyDict THEN st
    ELSE IF ~HasRequiredFields(media) THEN st
    ELSE LET k == FullviewIndex(media["types"]) IN
         IF k = 0 \/ ~Truthy(media["types"][k], "c")
         THEN IF "url" \in DOMAIN item
              THEN [st EXCEPT !.errors = Append(@, item["url"])]
              ELSE [st EXCEPT !.raised = TRUE]
         ELSE [st EXCEPT !.urls = Append(@, BuildUrl(media, media["types"][k]))]

\* The whole call: every iteration up to the first that raises.
RECURSIVE ExtractFrom(_, _, _)
ExtractFrom(st, rs, k) ==
    IF st.raised \/ k > Len(rs) THEN st
    ELSE ExtractFrom(ExtractItem(st, rs[k]), rs, k + 1)

extract_image_urls_from_results(rs, errors) ==
    ExtractFrom([urls |-> <<>>, errors |-> errors, raised |-> FALSE], rs, 1)

-----------------------------------------------------------------------------
(* The extraction on its own, one loop iteration per step *)

\* error_list as earlier batches of the run may have left it.
PriorErrors == {<<>>, <<NoFullviewItem.url>>}

InitExtract ==
    /\ pc = "extract"
    /\ results \in SeqsUpTo(Items, MaxLen)
    /\ idx = 1
    /\ media_urls = <<>>
    /\ error_list \in PriorErrors
    /\ ok_count = 0
    /\ gets = 0 /\ total_images = 0 /\ offset = 0
    /\ has_more = FALSE /\ next_offset = 0
    /\ offsets = <<>> /\ requested = <<>> /\ ok_gets = 0
    /\ marker_seen = FALSE /\ walk_over = FALSE /\ call_failed = FALSE
    /\ honest = TRUE

ExtractIterate ==
    /\ pc = "extract"
    /\ idx <= Len(results)
    /\ LET st == ExtractItem([urls |-> media_urls, errors |-> error_list,
                              raised |-> FALSE], results[idx]) IN
        /\ media_urls' = st.urls
        /\ error_list' = st.errors
        /\ pc' = IF st.raised THEN "raised" ELSE "extract"
        /\ idx' = IF st.raised THEN idx ELSE idx + 1
    /\ UNCHANGED <<results, gets, total_images, offset, has_more, next_offset, ok_count,
                   offsets, requested, ok_gets, marker_seen, walk_over, call_failed,
                   honest>>

\* return media_urls: the batch is yielded to the download loop.
ExtractReturn ==
    /\ pc = "extract"
    /\ idx > Len(results)
    /\ pc' = "download"
    /\ idx' = 1
    /\ UNCHANGED <<results, media_urls, error_list, gets, total_images, offset, has_more,
                   next_offset, ok_count, offsets, requested, ok_gets, marker_seen,
                   walk_over, call_failed, honest>>

-----------------------------------------------------------------------------
(* send_request *)

AUTH_DELETED == <<"a","u","t","h","=","d","e","l","e","t","e","d">>

\* sub in s
Contains(s, sub) ==
    \E k \in 0..(Len(s) - Len(sub)) : SubSeq(s, k + 1, k + Len(sub)) = sub

SetCookie(v) == "Set-Cookie" :> v

\* Set-Cookie values a server sends: the auth cookie cleared, and two refreshes.
CookieHeaders ==
    {AUTH_DELETED \o <<";">>, <<"a","u","t","h","=","d","e">>, <<"u","=","1">>}

Responses ==
    [ok : BOOLEAN, headers : {EmptyDict} \cup {SetCookie(v) : v \in CookieHeaders}]

\* Mutant of send_request: every Set-Cookie is taken for a refresh.
send_request_RetriesOnMarker(resp) ==
    IF ~resp.ok THEN "none"
    ELSE IF "Set-Cookie" \in DOMAIN resp.headers THEN "again"
    ELSE "response"

\* What send_request does with the response of one GET: "none" (return None),
\* "again" (the recursive call) or "response" (return response).
send_request(resp) ==
    IF ~resp.ok THEN "none"
    ELSE IF "Set-Cookie" \in DOMAIN resp.headers
         THEN IF Contains(resp.headers["Set-Cookie"], AUTH_DELETED)
              THEN "none"
              ELSE "again"
         ELSE "response"

\* The marker of a deleted session, as the response carries it.
CarriesMarker(resp) ==
    /\ resp.ok
    /\ "Set-Cookie" \in DOMAIN resp.headers
    /\ Contains(resp.headers["Set-Cookie"], AUTH_DELETED)

-----------------------------------------------------------------------------
(* The gallery page *)

Digits == <<"0","1","2","3","4","5","6","7","8","9">>

IsDigit(ch) == \E d \in 1..10 : Digits[d] = ch

DigitValue(ch) == (CHOOSE d \in 1..10 : Digits[d] = ch) - 1

RECURSIVE Strip(_)
\* str.strip() of blanks
Strip(s) ==
    IF s = <<>> THEN s
    ELSE IF Head(s) = " " THEN Strip(Tail(s))
    ELSE IF s[Len(s)] = " " THEN Strip(SubSeq(s, 1, Len(s) - 1))
    ELSE s

RECURSIVE DecimalValue(_)
DecimalValue(s) ==
    IF s = <<>> THEN 0
    ELSE 10 * DecimalValue(SubSeq(s, 1, Len(s) - 1)) + DigitValue(s[Len(s)])

\* int(span_tag.text.strip()) of a text of decimal digits; -1 for ValueError.
extract_total_images(text) ==
    LET t == Strip(text) IN
    IF t # <<>> /\ \A k \in 1..Len(t) : IsDigit(t[k])
    THEN DecimalValue(t)
    ELSE -1

RECURSIVE Decimal(_)
Decimal(n) ==
    IF n < 10 THEN <<Digits[n + 1]>> ELSE Decimal(n \div 10) \o <<Digits[(n % 10) + 1]>>

\* The page as the scraper reads it: whether span._1Mrww is there, its text, and
\* whether a script assigns window.__CSRF_TOKEN__.
Pages ==
    [span : BOOLEAN,
     text : {Decimal(n) : n \in 0..MaxTotal}
                \cup {<<" ">> \o Decimal(MaxTotal) \o <<" ">>, <<"x">>, <<>>},
     csrf : BOOLEAN]

-----------------------------------------------------------------------------
(* The API response *)

RunItems == {CatItem, DogItem, NoMediaItem, NoFullviewItem, NoFullviewNoUrlItem}

\* Offsets a server may name as nextOffset after a call at offset o.
NextOffsets(o) == {o, o + MAX_GALLERY_ITEMS}

\* response.json(): any subset of the keys results, hasMore, nextOffset; the
\* empty object stands for every falsy body.  A server is asked for a further
\* page at most MaxCalls times.
Jsons(o, calls) ==
    LET R == {EmptyDict} \cup {[results |-> r] : r \in SeqsUpTo(RunItems, MaxResults)}
        H == {EmptyDict} \cup {[hasMore |-> FALSE]}
                \cup (IF calls < MaxCalls THEN {[hasMore |-> TRUE]} ELSE {})
        N == {EmptyDict} \cup {[nextOffset |-> n] : n \in NextOffsets(o)}
    IN  {r @@ h @@ n : r \in R, h \in H, n \in N}

\* d.get(k, dflt)
Get(d, k, dflt) == IF k \in DOMAIN d THEN d[k] ELSE dflt

\* A response that agrees with a gallery of n items served MAX_GALLERY_ITEMS at
\* a time: hasMore exactly when items remain, nextOffset the next page if given.
Agrees(json, o, n) ==
    /\ Get(json, "hasMore", FALSE) = (o + MAX_GALLERY_ITEMS < n)
    /\ Get(json, "nextOffset", o + MAX_GALLERY_ITEMS) = o + MAX_GALLERY_ITEMS

-----------------------------------------------------------------------------
(* save_deviantart_gallery *)

Init ==
    /\ pc = "page"
    /\ gets = 0
    /\ total_images = 0
    /\ offset = 0
    /\ has_more = TRUE
    /\ next_offset = 0
    /\ results = <<>>
    /\ media_urls = <<>>
    /\ idx = 1
    /\ error_list = <<>>
    /\ ok_count = 0
    /\ offsets = <<>>
    /\ requested = <<>>
    /\ ok_gets = 0
    /\ marker_seen = FALSE
    /\ walk_over = FALSE
    /\ call_failed = FALSE
    /\ honest = TRUE

\* get_gallery_media up to the loop: one GET of send_request for the page and,
\* when send_request returns the response, the scraping of the page.
GetPage ==
    /\ pc = "page"
    /\ \E resp \in Responses :
        LET out == send_request(resp) IN
        /\ out = "again" => gets + 1 <= MaxGets
        /\ gets' = IF out = "again" THEN gets + 1 ELSE 0
        /\ marker_seen' = (marker_seen \/ CarriesMarker(resp))
        /\ IF out = "again" THEN UNCHANGED <<pc, total_images>>
           ELSE IF out = "none" THEN pc' = "done" /\ UNCHANGED total_images
           ELSE \E page \in Pages :
                IF ~page.span THEN pc' = "done" /\ UNCHANGED total_images
                ELSE IF extract_total_images(page.text) < 0
                     THEN pc' = "done" /\ UNCHANGED total_images
                ELSE /\ total_images' = extract_total_images(page.text)
                     /\ pc' = IF page.csrf THEN "api" ELSE "done"
    /\ UNCHANGED <<offset, has_more, next_offset, results, media_urls, idx, error_list,
                   ok_count, offsets, requested, ok_gets, walk_over, call_failed,
                   honest>>

\* One GET of _fetch_media_batch's send_request and, when send_request returns
\* the response, the rest of _fetch_media_batch and the yield of the batch.
FetchMediaBatch ==
    /\ pc = "api"
    /\ LET calls == IF gets = 0 THEN Len(offsets) + 1 ELSE Len(offsets) IN
       \E resp \in Responses :
        LET out == send_request(resp) IN
        /\ out = "again" => gets + 1 <= MaxGets
        /\ offsets' = IF gets = 0 THEN Append(offsets, offset) ELSE offsets
        /\ gets' = IF out = "again" THEN gets + 1 ELSE 0
        /\ marker_seen' = (marker_seen \/ CarriesMarker(resp))
        /\ IF out = "again"
           THEN UNCHANGED <<pc, has_more, next_offset, media_urls, idx, error_list,
                            requested, walk_over, call_failed, honest>>
           ELSE IF out = "none"
           THEN /\ pc' = "done"
                /\ walk_over' = TRUE
                /\ call_failed' = TRUE
                /\ UNCHANGED <<has_more, next_offset, media_urls, idx, error_list,
                               requested, honest>>
           ELSE \E json \in Jsons(offset, calls) :
                LET st == extract_image_urls_from_results(Get(json, "results", <<>>),
                                                          error_list)
                IN
                IF json = EmptyDict
                THEN /\ pc' = "done"
                     /\ walk_over' = TRUE
                     /\ call_failed' = TRUE
                     /\ UNCHANGED <<has_more, next_offset, media_urls, idx, error_list,
                                    requested, honest>>
                ELSE /\ error_list' = st.errors
                     /\ honest' = (honest /\ Agrees(json, offset, total_images))
                     /\ IF st.raised
                        THEN /\ pc' = "raised"
                             /\ walk_over' = TRUE
                             /\ call_failed' = TRUE
                             /\ UNCHANGED <<has_more, next_offset, media_urls, idx,
                                            requested>>
                        ELSE /\ pc' = "download"
                             /\ media_urls' = st.urls
                             /\ has_more' = Get(json, "hasMore", FALSE)
                             /\ next_offset' =
                                    Get(json, "nextOffset", offset + MAX_GALLERY_ITEMS)
                             /\ idx' = 1
                             /\ requested' = <<>>
                             /\ walk_over' = (walk_over \/ ~Get(json, "hasMore", FALSE))
                             /\ UNCHANGED call_failed
    /\ UNCHANGED <<total_images, offset, results, ok_count, ok_gets>>

\* Mutant of DownloadMedia: a failed GET ends the run.
DownloadMedia_AbortsOnFailure ==
    /\ pc = "download"
    /\ idx <= Len(media_urls)
    /\ \E response_ok \in BOOLEAN :
        /\ requested' = Append(requested, media_urls[idx])
        /\ ok_count' = IF response_ok THEN ok_count + 1 ELSE ok_count
        /\ ok_gets' = IF response_ok THEN ok_gets + 1 ELSE ok_gets
        /\ pc' = IF response_ok THEN pc ELSE "done"
    /\ idx' = idx + 1
    /\ UNCHANGED <<gets, total_images, offset, has_more, next_offset, results,
                   media_urls, error_list, offsets, marker_seen, walk_over,
                   call_failed, honest>>

\* download_media (and save_image) for the next URL of the batch.
DownloadMedia ==
    /\ pc = "download"
    /\ idx <= Len(media_urls)
    /\ \E response_ok \in BOOLEAN :
        /\ requested' = Append(requested, media_urls[idx])
        /\ ok_count' = IF response_ok THEN ok_count + 1 ELSE ok_count
        /\ ok_gets' = IF response_ok THEN ok_gets + 1 ELSE ok_gets
    /\ idx' = idx + 1
    /\ UNCHANGED <<pc, gets, total_images, offset, has_more, next_offset, results,
                   media_urls, error_list, offsets, marker_seen, walk_over,
                   call_failed, honest>>

\* Mutant of Resume: the offset is not advanced.
Resume_KeepsOffset ==
    /\ pc = "download"
    /\ idx > Len(media_urls)
    /\ IF ~has_more
       THEN pc' = "done" /\ UNCHANGED <<media_urls, idx, requested>>
       ELSE /\ pc' = "api"
            /\ media_urls' = <<>>
            /\ idx' = 1
            /\ requested' = <<>>
    /\ UNCHANGED <<offset, gets, total_images, has_more, next_offset, results,
                   error_list, ok_count, offsets, ok_gets, marker_seen, walk_over,
                   call_failed, honest>>

\* Mutant of Resume: has_more is not looked at.
Resume_IgnoresHasMore ==
    /\ pc = "download"
    /\ idx > Len(media_urls)
    /\ pc' = "api"
    /\ offset' = next_offset
    /\ media_urls' = <<>>
    /\ idx' = 1
    /\ requested' = <<>>
    /\ UNCHANGED <<gets, total_images, has_more, next_offset, results, error_list,
                   ok_count, offsets, ok_gets, marker_seen, walk_over, call_failed,
                   honest>>

\* The generator is resumed after the batch: break, or advance the offset and
\* go round the loop (the batch that was consumed is dropped).
Resume ==
    /\ pc = "download"
    /\ idx > Len(media_urls)
    /\ IF ~has_more
       THEN pc' = "done" /\ UNCHANGED <<offset, media_urls, idx, requested>>
       ELSE /\ pc' = "api"
            /\ offset' = next_offset
            /\ media_urls' = <<>>
            /\ idx' = 1
            /\ requested' = <<>>
    /\ UNCHANGED <<gets, total_images, has_more, next_offset, results, error_list,
                   ok_count, offsets, ok_gets, marker_seen, walk_over, call_failed,
                   honest>>

Next == GetPage \/ FetchMediaBatch \/ DownloadMedia \/ Resume

Spec == Init /\ [][Next]_vars

-----------------------------------------------------------------------------
(* One batch on its own: the extraction, one loop iteration per step, and the
   downloads of the batch it returns *)

NextExtract == ExtractIterate \/ ExtractReturn \/ DownloadMedia \/ Resume

SpecExtract == InitExtract /\ [][NextExtract]_vars

-----------------------------------------------------------------------------
(* Vocabulary of the properties *)

RequiredFields == {"baseUri", "prettyName", "token", "types"}

\* The item has no media, or one of the required media fields is absent or empty.
MissingRequired(item) ==
    \/ "media" \notin DOMAIN item
    \/ \E k \in RequiredFields : k \notin DOMAIN item.media \/ item.media[k] = <<>>

FullviewTypes(item) ==
    {k \in 1..Len(item.media.types) :
        "t" \in DOMAIN item.media.types[k] /\ item.media.types[k].t = "fullview"}

\* Required fields present, and no entry of types is a fullview.
LacksFullview(item) == ~MissingRequired(item) /\ FullviewTypes(item) = {}

\* Required fields present, and a fullview type with a non-empty template c.
WellFormed(item) ==
    /\ ~MissingRequired(item)
    /\ \E k \in FullviewTypes(item) :
        "c" \in DOMAIN item.media.types[k] /\ item.media.types[k].c # <<>>

TemplateOf(item) ==
    item.media.types[CHOOSE k \in FullviewTypes(item) :
                        "c" \in DOMAIN item.media.types[k]].c

\* baseUri, then the template with each <prettyName> replaced, then ?token= and
\* the first token.
ExpectedUrl(item) ==
    item.media.baseUri
        \o Replace(TemplateOf(item), PLACEHOLDER, item.media.prettyName)
        \o TOKEN_QUERY
        \o Head(item.media.token)

RECURSIVE ExpectedUrls(_)
ExpectedUrls(rs) ==
    IF rs = <<>> THEN <<>>
    ELSE (IF WellFormed(Head(rs)) THEN <<ExpectedUrl(Head(rs))>> ELSE <<>>)
            \o ExpectedUrls(Tail(rs))

Range(f) == {f[k] : k \in DOMAIN f}

CountIn(rs, P(_)) == Cardinality({k \in 1..Len(rs) : P(rs[k])})

HasAllRequired(item) == ~MissingRequired(item)

CeilDiv(n, d) == (n + d - 1) \div d

Max(a, b) == IF a >= b THEN a ELSE b

\* The extraction has returned its list (the batch is being, or was, downloaded).
Returned == pc \in {"download", "done"}

\* 'https://cdn/xcat.jpg?token=abc'
CatUrl ==
    <<"h","t","t","p","s",":","/","/","c","d","n","/","x","c","a","t",".","j","p","g",
      "?","t","o","k","e","n","=","a","b","c">>

\* 'https://cdn/x.jpg?token=abc'
ClaimedCatUrl ==
    <<"h","t","t","p","s",":","/","/","c","d","n","/","x",".","j","p","g",
      "?","t","o","k","e","n","=","a","b","c">>

\* 'b/d-d?token=t1'
DogUrl == <<"b","/","d","-","d","?","t","o","k","e","n","=","t","1">>

-----------------------------------------------------------------------------
(* Properties of the gallery walk, under Spec *)

\* C1, as claimed: whatever the API answers, a walk in which no call fails ends
\* after exactly ceil(N / MAX_GALLERY_ITEMS) calls of _fetch_media_batch, N the
\* total the page reports, and the offsets passed start at 0 and strictly
\* increase.
C1_CallsAreCeilOfTotal ==
    /\ api_calls >= 1 => offsets[1] = 0
    /\ \A k \in 1..(api_calls - 1) : offsets[k] < offsets[k + 1]
    /\ (pc = "done" /\ api_calls >= 1 /\ ~call_failed)
            => api_calls = CeilDiv(total_images, MAX_GALLERY_ITEMS)

\* C1, amended: when every API response agrees with the page's total N (hasMore
\* true exactly when offset + MAX_GALLERY_ITEMS < N, nextOffset absent or equal
\* to offset + MAX_GALLERY_ITEMS), the k-th call is made at offset
\* (k - 1) * MAX_GALLERY_ITEMS, so the offsets start at 0 and strictly increase,
\* and a walk in which no call fails or raises ends after exactly
\* max(1, ceil(N / MAX_GALLERY_ITEMS)) calls.
C1_CallsAreCeilOfTotalWhenResponsesAgree ==
    honest =>
        /\ \A k \in 1..api_calls : offsets[k] = (k - 1) * MAX_GALLERY_ITEMS
        /\ (pc = "done" /\ api_calls >= 1 /\ ~call_failed)
                => api_calls = Max(1, CeilDiv(total_images, MAX_GALLERY_ITEMS))

\* A gallery of three items walked in two calls, at offsets 0 and 2.
C1_Witness ==
    /\ pc = "done" /\ honest /\ ~call_failed
    /\ total_images = 3
    /\ offsets = <<0, MAX_GALLERY_ITEMS>>

\* C2: once an API call has failed, or a response has come without a true
\* hasMore, no step makes a further API call or changes the offset (so a first
\* response with hasMore false leaves the walk at one call).
C2_NoCallAfterWalkIsOver ==
    [][walk_over => (offsets' = offsets /\ offset' = offset)]_vars

\* The first response had no more pages: one call, its batch downloaded.
C2_Witness ==
    /\ pc = "done" /\ walk_over /\ ~call_failed
    /\ api_calls = 1
    /\ Len(requested) = 2

\* C3: the step in which send_request receives an ok response whose Set-Cookie
\* holds auth=deleted ends the call without another GET and ends the run, and
\* no later step issues an image GET (or any other request).
C3_NoRequestAfterAuthDeleted ==
    [][ /\ (~marker_seen /\ marker_seen') => (pc' = "done" /\ gets' = 0)
        /\ marker_seen => (requested' = requested /\ offsets' = offsets
                            /\ ok_count' = ok_count /\ pc' = pc) ]_vars

\* The marker came with the second API batch, after images of the first were saved.
C3_Witness ==
    /\ marker_seen /\ pc = "done"
    /\ api_calls = 2
    /\ ok_count >= 1

\* C4, as claimed: one top-level call of send_request issues at most two GETs.
C4_AtMostTwoGets == gets <= 2

\* C10: every image GET that is answered ok, and no other, adds one to ok_count;
\* a batch is left only when a GET was issued for each of its URLs, in order,
\* whatever the answers were; and error_list holds only the "url" of items that
\* failed the extraction.
C10_FailedGetSkipsOnlyThatImage ==
    /\ ok_count = ok_gets
    /\ pc = "download" => requested = SubSeq(media_urls, 1, idx - 1)
    /\ pc \in {"api", "done", "raised"} => requested = media_urls
    /\ \A k \in 1..Len(error_list) :
        \E it \in Items : /\ "url" \in DOMAIN it
                          /\ ~WellFormed(it)
                          /\ ~MissingRequired(it)
                          /\ error_list[k] = it.url

\* Both GETs of the second batch failed: the second was issued after the first
\* had failed, in a batch that came after an earlier one.
C10_Witness ==
    /\ pc = "done"
    /\ api_calls = 2
    /\ requested = <<CatUrl, DogUrl>>
    /\ ok_count = 0
    /\ error_list # <<>>

-----------------------------------------------------------------------------
(* Properties of one batch, under SpecExtract *)

\* C5: an item whose media lacks (or has empty) baseUri, prettyName, token or
\* types adds no URL to the list: the list is no longer than the number of items
\* with all four, each of its URLs is the URL of such an item, GETs are issued
\* for URLs of the list only, and ok_count counts answered GETs only.
C5_IncompleteItemGivesNoUrl ==
    /\ pc = "extract" =>
        Len(media_urls) <= CountIn(SubSeq(results, 1, idx - 1), HasAllRequired)
    /\ Returned =>
        /\ Len(media_urls) <= CountIn(results, HasAllRequired)
        /\ \A k \in 1..Len(media_urls) :
            \E j \in 1..Len(results) :
                WellFormed(results[j]) /\ media_urls[k] = ExpectedUrl(results[j])
        /\ requested = SubSeq(media_urls, 1, Len(requested))
        /\ ok_count <= Len(requested)

\* Of three items only the middle one is complete: one URL, one GET, one save.
C5_Witness ==
    /\ pc = "done"
    /\ results = <<NoMediaItem, CatItem, EmptyTokenItem>>
    /\ requested = <<CatUrl>>
    /\ ok_count = 1

\* C6, as claimed: the loop iteration over an item that has the required fields
\* and no fullview type adds exactly one entry to error_list and no URL, and the
\* loop goes on to the next item.
C6_NoFullviewIsRecordedOnce ==
    [][(pc = "extract" /\ idx <= Len(results) /\ LacksFullview(results[idx]))
        => /\ Len(error_list') = Len(error_list) + 1
           /\ media_urls' = media_urls
           /\ pc' = "extract"
           /\ idx' = idx + 1]_vars

\* C7, as claimed: the loop iteration over an item that is missing required
\* media fields adds an entry to error_list.
C7_SkippedItemIsRecorded ==
    [][(pc = "extract" /\ idx <= Len(results) /\ MissingRequired(results[idx]))
        => Len(error_list') = Len(error_list) + 1]_vars

\* C8: the list returned holds, in the order of the input, exactly the URL
\* baseUri + template[<prettyName> := prettyName] + "?token=" + token[0] of each
\* well-formed item, whatever error_list held before the call.
C8_UrlsAreBuiltInOrder == Returned => media_urls = ExpectedUrls(results)

\* Two well-formed items around an incomplete one.
C8_Witness ==
    /\ pc = "download"
    /\ results = <<DogItem, NoMediaItem, CatItem>>
    /\ media_urls = <<DogUrl, CatUrl>>
    /\ error_list # <<>>

\* C9, as claimed: the item with baseUri 'https://cdn/x', template
\* '<prettyName>.jpg', prettyName 'cat' and token 'abc' resolves to
\* 'https://cdn/x.jpg?token=abc'.
C9_CatExampleAsClaimed ==
    (Returned /\ results = <<CatItem>>) => media_urls = <<ClaimedCatUrl>>

\* C9, amended: the item with baseUri 'https://cdn/x', template
\* '<prettyName>.jpg', prettyName 'cat' and token 'abc' resolves to
\* 'https://cdn/xcat.jpg?token=abc': the placeholder is replaced by the name, and
\* nothing of baseUri is dropped.
C9_CatExample ==
    Returned =>
        /\ results = <<CatItem>> => media_urls = <<CatUrl>>
        /\ \A k \in 1..Len(results) : results[k] = CatItem => CatUrl \in Range(media_urls)

C9_Witness ==
    /\ pc = "download"
    /\ results = <<CatItem>>
    /\ media_urls = <<CatUrl>>

====
